---- MODULE Spec2Model ----
(***************************************************************************)
(* add_files_to_project.py: read the project path and the file paths from  *)
(* sys.argv, load the project, add every file path in order, save.         *)
(* The script is run by one or more processes against a shared disk.       *)
(*                                                                         *)
(* XcodeProject (load / add_file / save) is an external library: its       *)
(* effect is modelled by the Lib* operators, after the collaborator        *)
(* contract load(path) -> handle, handle.add_file(path), handle.save().    *)
(***************************************************************************)
EXTENDS Integers, Sequences, FiniteSets, TLC

\* Bounds of the model.
MaxArgs == 2        \* most file-path arguments of one invocation
MaxInit == 1        \* most file entries of the manifest before any run

Procs == {1, 2}     \* invocations of the script

Script == "add_files_to_project.py"
ManifestOK == "proj.manifest"           \* an existing, well-formed manifest
ManifestBad == "bad.manifest"           \* exists, not parseable
ManifestMissing == "missing.manifest"   \* does not exist
FileA == "src/a.c"                      \* exists on disk as a plain file
FileB == "src/b.c"                      \* does not exist on disk
InitEntry == "main.c"

FilePaths == {FileA, FileB}
ManifestArgs == {ManifestOK, ManifestBad, ManifestMissing}
DiskPaths == ManifestArgs \cup FilePaths

SeqsUpTo(S, n) == UNION {[1..k -> S] : k \in 0..n}

\* Contents of a path on disk.
Absent == [kind |-> "absent", entries |-> <<>>]
Plain == [kind |-> "plain", entries |-> <<>>]
Manifest(es) == [kind |-> "manifest", entries |-> es]

\* sys.argv of an invocation: the script name, then the arguments.
ArgvSet ==
  {<<Script>>} \cup
  {<<Script, m>> \o fs : m \in ManifestArgs, fs \in SeqsUpTo(FilePaths, MaxArgs)}

InitDisk(es) ==
  [x \in DiskPaths |->
     IF x = ManifestOK THEN Manifest(es)
     ELSE IF x \in {ManifestBad, FileA} THEN Plain
     ELSE Absent]

NoProject == [path |-> "", entries |-> <<>>]

VARIABLES
  disk,          \* path -> contents
  writable,      \* the paths the processes may write
  pc,            \* per process: "idle", "args", "load", "add", "save", "exited"
  argv,          \* per process: sys.argv
  project_path,  \* per process: the script's project_path
  file_paths,    \* per process: the script's file_paths
  project,       \* per process: the loaded XcodeProject handle
  idx,           \* per process: position of the for loop in file_paths
  exit_status,   \* per process: -1 while not exited, else the exit status
  err,           \* per process: the uncaught exception, or "none"
  calls,         \* history, per process: the library calls made, in order
  loaded,        \* history, per process: the entries load returned
  disk0,         \* history, per process: the disk when the process started
  runs,          \* history: the processes in order of invocation
  lastWriter     \* history: the process whose save wrote last, or 0

vars ==
  <<disk, writable, pc, argv, project_path, file_paths, project, idx,
    exit_status, err, calls, loaded, disk0, runs, lastWriter>>

----------------------------------------------------------------------------
\* The library, by its contract.

LibLoadOk(d, path) == d[path].kind = "manifest"

LibLoad(d, path) == [path |-> path, entries |-> d[path].entries]

LibAddFile(h, f) == [h EXCEPT !.entries = Append(@, f)]

LibSaveOk(w, h) == h.path \in w

LibSave(d, h) == [d EXCEPT ![h.path] = Manifest(h.entries)]

----------------------------------------------------------------------------
\* The script.

Call(o, a, k) == [op |-> o, arg |-> a, ok |-> k]

HasProjectPath(av) == Len(av) >= 2

ProjectPathOf(av) == av[2]

FilePathsOf_OffByOne(av) == SubSeq(av, 2, Len(av))

FilePathsOf(av) == SubSeq(av, 3, Len(av))

NextFilePath_Reversed(p) == file_paths[p][Len(file_paths[p]) + 1 - idx[p]]

NextFilePath(p) == file_paths[p][idx[p]]

LoopPc_Early(p, k) == IF k < Len(file_paths[p]) THEN "add" ELSE "save"

LoopPc(p, k) == IF k <= Len(file_paths[p]) THEN "add" ELSE "save"

SaveTarget_Other(p) == [project[p] EXCEPT !.path = ManifestMissing]

SaveTarget(p) == project[p]

\* An uncaught exception e ends the process with exit status 1.
Raise_Swallow(p, e) ==
  /\ pc' = [pc EXCEPT ![p] = "exited"]
  /\ exit_status' = [exit_status EXCEPT ![p] = 0]
  /\ err' = [err EXCEPT ![p] = e]

Raise_Finally(p, e) ==
  /\ pc' = [pc EXCEPT ![p] = IF e = "AddError" THEN "save" ELSE "exited"]
  /\ exit_status' = [exit_status EXCEPT ![p] = IF e = "AddError" THEN -1 ELSE 1]
  /\ err' = [err EXCEPT ![p] = IF e = "AddError" THEN "none" ELSE e]

Raise(p, e) ==
  /\ pc' = [pc EXCEPT ![p] = "exited"]
  /\ exit_status' = [exit_status EXCEPT ![p] = 1]
  /\ err' = [err EXCEPT ![p] = e]

\* A process is started with some sys.argv.
Invoke(p) ==
  /\ pc[p] = "idle"
  /\ \E av \in ArgvSet : argv' = [argv EXCEPT ![p] = av]
  /\ pc' = [pc EXCEPT ![p] = "args"]
  /\ disk0' = [disk0 EXCEPT ![p] = disk]
  /\ runs' = Append(runs, p)
  /\ UNCHANGED <<disk, writable, project_path, file_paths, project, idx,
                 exit_status, err, calls, loaded, lastWriter>>

\* Invocations one after the other.
InvokeSeq(p) ==
  /\ \A q \in Procs : pc[q] \in {"idle", "exited"}
  /\ Invoke(p)

\* Invocations at any time.
InvokeConc(p) == Invoke(p)

\* project_path = sys.argv[1]; file_paths = sys.argv[2:]
ReadArgs_Default(p) ==
  /\ pc[p] = "args"
  /\ project_path' = [project_path EXCEPT ![p] =
       IF HasProjectPath(argv[p]) THEN ProjectPathOf(argv[p]) ELSE ManifestOK]
  /\ file_paths' = [file_paths EXCEPT ![p] =
       IF HasProjectPath(argv[p]) THEN FilePathsOf(argv[p]) ELSE <<>>]
  /\ pc' = [pc EXCEPT ![p] = "load"]
  /\ UNCHANGED <<disk, writable, argv, project, idx, exit_status, err, calls,
                 loaded, disk0, runs, lastWriter>>

ReadArgs(p) ==
  /\ pc[p] = "args"
  /\ IF HasProjectPath(argv[p])
     THEN /\ project_path' = [project_path EXCEPT ![p] = ProjectPathOf(argv[p])]
          /\ file_paths' = [file_paths EXCEPT ![p] = FilePathsOf(argv[p])]
          /\ pc' = [pc EXCEPT ![p] = "load"]
          /\ UNCHANGED <<exit_status, err>>
     ELSE /\ Raise(p, "IndexError")
          /\ UNCHANGED <<project_path, file_paths>>
  /\ UNCHANGED <<disk, writable, argv, project, idx, calls, loaded, disk0,
                 runs, lastWriter>>

\* project = XcodeProject.load(project_path)
Load_CreateIfMissing(p) ==
  /\ pc[p] = "load"
  /\ calls' = [calls EXCEPT ![p] =
       Append(@, Call("load", project_path[p], LibLoadOk(disk, project_path[p])))]
  /\ project' = [project EXCEPT ![p] =
       IF LibLoadOk(disk, project_path[p]) THEN LibLoad(disk, project_path[p])
       ELSE [path |-> ManifestOK, entries |-> <<>>]]
  /\ loaded' = [loaded EXCEPT ![p] =
       IF LibLoadOk(disk, project_path[p]) THEN disk[project_path[p]].entries
       ELSE <<>>]
  /\ idx' = [idx EXCEPT ![p] = 1]
  /\ pc' = [pc EXCEPT ![p] = LoopPc(p, 1)]
  /\ UNCHANGED <<disk, writable, argv, project_path, file_paths, exit_status,
                 err, disk0, runs, lastWriter>>

Load(p) ==
  /\ pc[p] = "load"
  /\ calls' = [calls EXCEPT ![p] =
       Append(@, Call("load", project_path[p], LibLoadOk(disk, project_path[p])))]
  /\ IF LibLoadOk(disk, project_path[p])
     THEN /\ project' = [project EXCEPT ![p] = LibLoad(disk, project_path[p])]
          /\ loaded' = [loaded EXCEPT ![p] = disk[project_path[p]].entries]
          /\ idx' = [idx EXCEPT ![p] = 1]
          /\ pc' = [pc EXCEPT ![p] = LoopPc(p, 1)]
          /\ UNCHANGED <<exit_status, err>>
     ELSE /\ Raise(p, "LoadError")
          /\ UNCHANGED <<project, loaded, idx>>
  /\ UNCHANGED <<disk, writable, argv, project_path, file_paths, disk0, runs,
                 lastWriter>>

\* for file_path in file_paths: project.add_file(file_path)
\* One iteration; the call may raise.
AddFile_Dedup(p) ==
  /\ pc[p] = "add"
  /\ \E ok \in BOOLEAN :
       /\ calls' = [calls EXCEPT ![p] = Append(@, Call("add_file", NextFilePath(p), ok))]
       /\ IF ok
          THEN /\ project' = [project EXCEPT ![p] =
                    IF \E k \in 1..Len(project[p].entries) :
                         project[p].entries[k] = NextFilePath(p)
                    THEN project[p]
                    ELSE LibAddFile(project[p], NextFilePath(p))]
               /\ idx' = [idx EXCEPT ![p] = @ + 1]
               /\ pc' = [pc EXCEPT ![p] = LoopPc(p, idx[p] + 1)]
               /\ UNCHANGED <<exit_status, err>>
          ELSE /\ Raise(p, "AddError")
               /\ UNCHANGED <<project, idx>>
  /\ UNCHANGED <<disk, writable, argv, project_path, file_paths, loaded, disk0,
                 runs, lastWriter>>

AddFile(p) ==
  /\ pc[p] = "add"
  /\ \E ok \in BOOLEAN :
       /\ calls' = [calls EXCEPT ![p] = Append(@, Call("add_file", NextFilePath(p), ok))]
       /\ IF ok
          THEN /\ project' = [project EXCEPT ![p] = LibAddFile(@, NextFilePath(p))]
               /\ idx' = [idx EXCEPT ![p] = @ + 1]
               /\ pc' = [pc EXCEPT ![p] = LoopPc(p, idx[p] + 1)]
               /\ UNCHANGED <<exit_status, err>>
          ELSE /\ Raise(p, "AddError")
               /\ UNCHANGED <<project, idx>>
  /\ UNCHANGED <<disk, writable, argv, project_path, file_paths, loaded, disk0,
                 runs, lastWriter>>

\* project.save()
Save_Merge(p) ==
  /\ pc[p] = "save"
  /\ calls' = [calls EXCEPT ![p] =
       Append(@, Call("save", SaveTarget(p).path, LibSaveOk(writable, SaveTarget(p))))]
  /\ IF LibSaveOk(writable, SaveTarget(p))
     THEN /\ disk' = LibSave(disk, [SaveTarget(p) EXCEPT !.entries =
                       disk[SaveTarget(p).path].entries \o file_paths[p]])
          /\ lastWriter' = p
          /\ pc' = [pc EXCEPT ![p] = "exited"]
          /\ exit_status' = [exit_status EXCEPT ![p] = 0]
          /\ UNCHANGED err
     ELSE /\ Raise(p, "SaveError")
          /\ UNCHANGED <<disk, lastWriter>>
  /\ UNCHANGED <<writable, argv, project_path, file_paths, project, idx, loaded,
                 disk0, runs>>

Save(p) ==
  /\ pc[p] = "save"
  /\ calls' = [calls EXCEPT ![p] =
       Append(@, Call("save", SaveTarget(p).path, LibSaveOk(writable, SaveTarget(p))))]
  /\ IF LibSaveOk(writable, SaveTarget(p))
     THEN /\ disk' = LibSave(disk, SaveTarget(p))
          /\ lastWriter' = p
          /\ pc' = [pc EXCEPT ![p] = "exited"]
          /\ exit_status' = [exit_status EXCEPT ![p] = 0]
          /\ UNCHANGED err
     ELSE /\ Raise(p, "SaveError")
          /\ UNCHANGED <<disk, lastWriter>>
  /\ UNCHANGED <<writable, argv, project_path, file_paths, project, idx, loaded,
                 disk0, runs>>

Init ==
  /\ \E es \in SeqsUpTo({InitEntry}, MaxInit) : disk = InitDisk(es)
  /\ writable \in SUBSET {ManifestOK}
  /\ pc = [p \in Procs |-> "idle"]
  /\ argv = [p \in Procs |-> <<>>]
  /\ project_path = [p \in Procs |-> ""]
  /\ file_paths = [p \in Procs |-> <<>>]
  /\ project = [p \in Procs |-> NoProject]
  /\ idx = [p \in Procs |-> 0]
  /\ exit_status = [p \in Procs |-> -1]
  /\ err = [p \in Procs |-> "none"]
  /\ calls = [p \in Procs |-> <<>>]
  /\ loaded = [p \in Procs |-> <<>>]
  /\ disk0 = [p \in Procs |-> disk]
  /\ runs = <<>>
  /\ lastWriter = 0

Step(p) == ReadArgs(p) \/ Load(p) \/ AddFile(p) \/ Save(p)

Next == \E p \in Procs : InvokeSeq(p) \/ Step(p)

NextConc == \E p \in Procs : InvokeConc(p) \/ Step(p)

\* Runs one after the other.
Spec == Init /\ [][Next]_vars

\* A started process keeps running until it exits.
FairSpec == Spec /\ \A p \in Procs : WF_vars(Step(p))

\* Runs that may overlap.
SpecConc == Init /\ [][NextConc]_vars

----------------------------------------------------------------------------
\* Vocabulary of the properties.

Exited(p) == pc[p] = "exited"

Succeeded(p) == Exited(p) /\ exit_status[p] = 0

\* No process was started after p.
Last(p) == Len(runs) > 0 /\ runs[Len(runs)] = p

Started(p) == pc[p] \notin {"idle", "args"}

NumCalls(p, o) == Cardinality({k \in 1..Len(calls[p]) : calls[p][k].op = o})

\* The calls of a run in which nothing fails.
SuccessCalls(p) ==
  <<Call("load", project_path[p], TRUE)>>
  \o [k \in 1..Len(file_paths[p]) |-> Call("add_file", file_paths[p][k], TRUE)]
  \o <<Call("save", project_path[p], TRUE)>>

IsPrefix(s, t) == Len(s) <= Len(t) /\ \A k \in 1..Len(s) : s[k] = t[k]

\* C1: a successful run with N >= 1 file paths leaves on disk the loaded
\* entries followed by the N file paths, in argument order, and nothing else.
C1_AppendsInOrder ==
  \A p \in Procs :
    (Succeeded(p) /\ Last(p) /\ Len(file_paths[p]) >= 1) =>
      /\ loaded[p] = disk0[p][project_path[p]].entries
      /\ disk[project_path[p]] = Manifest(loaded[p] \o file_paths[p])
      /\ Len(disk[project_path[p]].entries) = Len(loaded[p]) + Len(argv[p]) - 2
      /\ \A k \in 1..Len(file_paths[p]) :
           disk[project_path[p]].entries[Len(loaded[p]) + k] = argv[p][k + 2]

C1_Witness ==
  \E p \in Procs :
    /\ Succeeded(p) /\ Last(p)
    /\ file_paths[p] = <<FileA, FileB>>
    /\ disk[ManifestOK].entries = <<InitEntry, FileA, FileB>>

\* C2: a manifest path that does not exist or does not parse makes load fail
\* with LoadError; the process exits, calls neither add_file nor save, and
\* leaves the disk as it was.
C2_LoadErrorWritesNothing ==
  \A p \in Procs :
    (Started(p) /\ HasProjectPath(argv[p]) /\ disk0[p][argv[p][2]].kind # "manifest") =>
      /\ pc[p] \in {"load", "exited"}
      /\ NumCalls(p, "add_file") = 0 /\ NumCalls(p, "save") = 0
      /\ Exited(p) =>
           /\ err[p] = "LoadError" /\ exit_status[p] # 0
           /\ calls[p] = <<Call("load", argv[p][2], FALSE)>>
           /\ Last(p) => disk = disk0[p]

C2_Witness ==
  \E p, q \in Procs :
    /\ Exited(p) /\ err[p] = "LoadError" /\ project_path[p] = ManifestMissing
    /\ Exited(q) /\ err[q] = "LoadError" /\ project_path[q] = ManifestBad

\* C3: no deduplication and no validation: two successful runs in sequence
\* on the same manifest leave the first run's file paths and then the second
\* run's, every one of them, repeated and non-existent paths included.
C3_NoDeduplication ==
  \A p, q \in Procs :
    (runs = <<p, q>> /\ Succeeded(p) /\ Succeeded(q)
       /\ project_path[p] = project_path[q]) =>
      disk[project_path[p]].entries =
        disk0[p][project_path[p]].entries \o file_paths[p] \o file_paths[q]

C3_Witness ==
  \E p, q \in Procs :
    /\ runs = <<p, q>> /\ Succeeded(p) /\ Succeeded(q)
    /\ file_paths[p] = <<FileB>> /\ file_paths[q] = <<FileB, FileB>>
    /\ disk[FileB] = Absent
    /\ disk[ManifestOK].entries = disk0[p][ManifestOK].entries \o <<FileB, FileB, FileB>>

\* C4: with a manifest path and no file path the run calls load, never
\* add_file, then save, and the disk afterwards is the disk before.
C4_ZeroFilesNoOp ==
  \A p \in Procs :
    (Exited(p) /\ Len(argv[p]) = 2) =>
      /\ NumCalls(p, "add_file") = 0
      /\ Last(p) => disk = disk0[p]
      /\ (disk0[p][argv[p][2]].kind = "manifest" /\ argv[p][2] \in writable) =>
           /\ calls[p] = <<Call("load", argv[p][2], TRUE), Call("save", argv[p][2], TRUE)>>
           /\ exit_status[p] = 0

C4_Witness ==
  \E p \in Procs :
    /\ Succeeded(p) /\ Last(p) /\ Len(argv[p]) = 2
    /\ NumCalls(p, "save") = 1
    /\ disk[ManifestOK] = Manifest(<<InitEntry>>)

\* C5: save writes the path the manifest was loaded from and no other path:
\* when that path is writable the file becomes the mutated manifest and the
\* rest of the disk is untouched; when it is not, save fails with SaveError
\* and the disk keeps its content.
C5_SaveSamePathOnly ==
  \A p \in Procs :
    (Exited(p) /\ NumCalls(p, "save") > 0) =>
      /\ calls[p][Len(calls[p])].op = "save"
      /\ calls[p][Len(calls[p])].arg = project_path[p]
      /\ IF project_path[p] \in writable
         THEN /\ exit_status[p] = 0 /\ err[p] = "none"
              /\ Last(p) =>
                   disk = [disk0[p] EXCEPT ![project_path[p]] = Manifest(project[p].entries)]
         ELSE /\ err[p] = "SaveError" /\ exit_status[p] # 0
              /\ Last(p) => disk = disk0[p]

C5_Witness ==
  \E p \in Procs :
    /\ Succeeded(p) /\ Last(p) /\ Len(file_paths[p]) >= 1
    /\ disk[project_path[p]] # disk0[p][project_path[p]]
    /\ \A x \in DiskPaths \ {project_path[p]} : disk[x] = disk0[p][x]

\* C6: the exit status is 0 exactly when load, every add_file and save
\* completed; a failure ends the run with a non-zero status and the failed
\* call is not made again.
C6_ExitStatus ==
  \A p \in Procs :
    /\ ~Exited(p) => exit_status[p] = -1
    /\ Exited(p) =>
         /\ exit_status[p] \in {0, 1}
         /\ exit_status[p] = 0 <=> calls[p] = SuccessCalls(p)
         /\ exit_status[p] = 0 <=> err[p] = "none"
         /\ \A k \in 1..Len(calls[p]) : ~calls[p][k].ok => k = Len(calls[p])

C6_Witness ==
  \E p, q \in Procs :
    /\ Succeeded(p) /\ Len(file_paths[p]) >= 1
    /\ Exited(q) /\ exit_status[q] = 1 /\ err[q] \in {"LoadError", "SaveError"}

\* C7: of runs that overlap on one manifest the last writer wins: after a
\* save the file is what that process loaded followed by its own file
\* paths, whatever the other process saved in between.
C7_LastWriterWins ==
  \A p \in Procs :
    lastWriter = p =>
      disk[project_path[p]] = Manifest(loaded[p] \o file_paths[p])

\* Both processes loaded before either saved, both exited with 0, and the
\* file has none of the additions of the one that saved first.
C7_Witness ==
  \E p, q \in Procs :
    /\ p # q /\ Succeeded(p) /\ Succeeded(q)
    /\ project_path[p] = project_path[q]
    /\ loaded[p] = loaded[q]
    /\ lastWriter = p
    /\ file_paths[p] = <<FileA>> /\ file_paths[q] = <<FileB>>
    /\ disk[project_path[p]].entries = loaded[p] \o <<FileA>>

\* The order of the calls of a run: load first and only first, then
\* add_file for the file paths in order, then save, which is last.
CallOrder(p) ==
  /\ IsPrefix(calls[p], SuccessCalls(p)) \/
       (Len(calls[p]) > 0 /\ ~calls[p][Len(calls[p])].ok
          /\ Len(calls[p]) <= Len(SuccessCalls(p))
          /\ \A k \in 1..Len(calls[p]) :
               /\ calls[p][k].op = SuccessCalls(p)[k].op
               /\ calls[p][k].arg = SuccessCalls(p)[k].arg
               /\ k < Len(calls[p]) => calls[p][k].ok)
  /\ NumCalls(p, "load") <= 1
  /\ NumCalls(p, "save") <= 1
  /\ NumCalls(p, "save") = 1 =>
       /\ Exited(p)
       /\ NumCalls(p, "add_file") = Len(file_paths[p])
       /\ calls[p][Len(calls[p])].op = "save"

\* C8 as stated: every run that has exited made exactly one load.
C8_Original ==
  \A p \in Procs :
    /\ Started(p) => CallOrder(p)
    /\ Exited(p) => NumCalls(p, "load") = 1

\* C8, amended: every run given a manifest path calls load exactly once and
\* first, then add_file for each file path in order, then save at most once
\* and last; a run without a manifest path calls nothing; every run exits.
C8_LoadAddSaveOrder ==
  /\ [](\A p \in Procs :
          /\ Started(p) => CallOrder(p)
          /\ (Started(p) /\ HasProjectPath(argv[p]) /\ pc[p] # "load") =>
               NumCalls(p, "load") = 1
          /\ (Exited(p) /\ ~HasProjectPath(argv[p])) => calls[p] = <<>>)
  /\ \A p \in Procs : (pc[p] # "idle") ~> Exited(p)

C8_Witness ==
  \E p, q \in Procs :
    /\ Succeeded(p) /\ Len(calls[p]) = 4
    /\ Exited(q) /\ ~HasProjectPath(argv[q])

\* C9: when add_file fails for the k-th file path the run stops there: no
\* later file path is added, save is not called and the disk keeps its
\* content; the disk changes only in a run whose add_file calls all succeeded.
C9_AddFailureIsTerminal ==
  \A p \in Procs :
    /\ (\E k \in 1..Len(calls[p]) : calls[p][k].op = "add_file" /\ ~calls[p][k].ok) =>
         /\ Exited(p) /\ err[p] = "AddError" /\ exit_status[p] # 0
         /\ calls[p][Len(calls[p])] =
              Call("add_file", file_paths[p][Len(calls[p]) - 1], FALSE)
         /\ NumCalls(p, "save") = 0
         /\ Last(p) => disk = disk0[p]
    /\ (Last(p) /\ disk # disk0[p]) =>
         /\ NumCalls(p, "add_file") = Len(file_paths[p])
         /\ \A k \in 1..Len(calls[p]) : calls[p][k].ok

C9_Witness ==
  \E p \in Procs :
    /\ Exited(p) /\ err[p] = "AddError" /\ Last(p)
    /\ Len(file_paths[p]) = 2 /\ Len(calls[p]) = 3
    /\ project[p].entries # loaded[p]
    /\ disk = disk0[p]

\* C10: invoked with no argument the process exits with a non-zero status
\* while reading sys.argv: load is not called, nothing is added or written.
C10_NoArgumentsFails ==
  \A p \in Procs :
    (Started(p) /\ ~HasProjectPath(argv[p])) =>
      /\ Exited(p) /\ exit_status[p] # 0 /\ err[p] = "IndexError"
      /\ calls[p] = <<>>
      /\ project[p] = NoProject
      /\ Last(p) => disk = disk0[p]

C10_Witness ==
  \E p \in Procs :
    /\ Exited(p) /\ argv[p] = <<Script>> /\ exit_status[p] = 1 /\ Last(p)

====
